---- MODULE Spec2Model ----
(***************************************************************************)
(* RedisStore (persistence/redis.go): the cache adapter over a Redis       *)
(* client.  The remote store is a map from keys to byte strings with a     *)
(* time to live; every command of the client is one atomic step of the     *)
(* store, and a call of the adapter that issues two commands (Replace,     *)
(* Increment, Decrement) is two steps between which other clients' steps   *)
(* and the expiry of entries may take place.                               *)
(***************************************************************************)
EXTENDS Integers, Sequences, FiniteSets, TLC

VARIABLES store, defaultExpiration, pc, loc, ret, calls

vars == <<store, defaultExpiration, pc, loc, ret, calls>>

-----------------------------------------------------------------------------
(* Bounds of the model *)

\* width of the machine word standing for Go's 64-bit int64/uint64
WordBits == 3

\* number of calls of the adapter in a run
MaxCalls == 3

Clients == {"c1", "c2"}
Keys == {"a", "b"}

-----------------------------------------------------------------------------
(* Machine integers *)

Pow2(n) == 2 ^ n
Modulus == Pow2(WordBits)
MaxInt64 == Pow2(WordBits - 1) - 1
MinInt64 == 0 - Pow2(WordBits - 1)
MaxUint64 == Modulus - 1

\* conversion uint64(x) of a signed word
ToUint64(x) == x % Modulus

\* conversion int64(x), and the wrap-around of signed arithmetic
ToInt64(x) == IF x % Modulus > MaxInt64 THEN (x % Modulus) - Modulus ELSE x % Modulus

-----------------------------------------------------------------------------
(* Byte strings: sequences of character codes *)

Char == [minus |-> 45, zero |-> 48, a |-> 97]
Minus == Char.minus
Zero == Char.zero
CharA == Char.a

RECURSIVE FormatNat(_)
FormatNat(n) == IF n < 10 THEN <<Zero + n>> ELSE Append(FormatNat(n \div 10), Zero + (n % 10))

\* the decimal text the client writes for an int64 argument
FormatInt(n) == IF n < 0 THEN <<Minus>> \o FormatNat(0 - n) ELSE FormatNat(n)

IsDigits(s) == Len(s) > 0 /\ \A i \in 1..Len(s) : s[i] \in Zero..(Zero + 9)

RECURSIVE DigitsValue(_)
DigitsValue(s) == IF Len(s) = 0 THEN 0
                  ELSE 10 * DigitsValue(SubSeq(s, 1, Len(s) - 1)) + (s[Len(s)] - Zero)

\* Cmd.Int64(): strconv.ParseInt(text, 10, 64)
ParseInt(s) ==
    LET neg == Len(s) > 0 /\ s[1] = Minus
        body == IF neg THEN Tail(s) ELSE s
        n == IF neg THEN 0 - DigitsValue(body) ELSE DigitsValue(body)
    IN IF IsDigits(body) /\ n >= MinInt64 /\ n <= MaxInt64
       THEN [ok |-> TRUE, n |-> n]
       ELSE [ok |-> FALSE, n |-> 0]

-----------------------------------------------------------------------------
(* Values of the caller and their serialization *)

IntV(n) == [kind |-> "int", n |-> n, b |-> <<>>]
BytesV(b) == [kind |-> "bytes", n |-> 0, b |-> b]
Unserializable == [kind |-> "bad", n |-> 0, b |-> <<>>]
NoValue == [kind |-> "none", n |-> 0, b |-> <<>>]

Values == {IntV(2), BytesV(<<CharA>>), Unserializable}
Kinds == {"int", "bytes"}

\* utils.Serialize: bytes are kept, integers become their decimal text
Serialize(v) ==
    CASE v.kind = "bytes" -> [err |-> "nil", b |-> v.b]
      [] v.kind = "int" -> [err |-> "nil", b |-> FormatInt(v.n)]
      [] OTHER -> [err |-> "ErrSerialize", b |-> <<>>]

\* utils.Deserialize into a destination of kind dst
Deserialize(b, dst) ==
    IF dst = "bytes" THEN [err |-> "nil", v |-> BytesV(b)]
    ELSE IF ParseInt(b).ok THEN [err |-> "nil", v |-> IntV(ParseInt(b).n)]
    ELSE [err |-> "ErrDeserialize", v |-> NoValue]

-----------------------------------------------------------------------------
(* Expirations *)

DEFAULT == 0
FOREVER == -1
Literal == 5

Expirations == {DEFAULT, FOREVER, Literal}
DefaultExpirations == {0, 7}
Deltas == {1, MaxUint64}

\* an expval that hands FOREVER on as it is
expvalKeepsForever(expires) == IF expires = DEFAULT THEN defaultExpiration ELSE expires

expval(expires) ==
    CASE expires = DEFAULT -> defaultExpiration
      [] expires = FOREVER -> 0
      [] OTHER -> expires

-----------------------------------------------------------------------------
(* The remote store: the commands of the client *)

Absent == [present |-> FALSE, val |-> <<>>, ttl |-> 0]
Entry(b, ttl) == [present |-> TRUE, val |-> b, ttl |-> ttl]

\* the client adds EX/PX to the command only for a positive expiration
Ttl(expiration) == IF expiration > 0 THEN expiration ELSE 0

\* a SET that writes only a key that is there (SET key value XX)
RedisSetOnlyPresent(st, k, b, expiration) ==
    IF st[k].present THEN [st EXCEPT ![k] = Entry(b, Ttl(expiration))] ELSE st

\* a SET that does not overwrite an entry
RedisSetKeepsOld(st, k, b, expiration) ==
    IF st[k].present THEN st ELSE [st EXCEPT ![k] = Entry(b, Ttl(expiration))]

\* SET key value [EX expiration]
RedisSet(st, k, b, expiration) == [st EXCEPT ![k] = Entry(b, Ttl(expiration))]

\* a SETNX that writes whether or not the key is there
RedisSetNXOverwrites(st, k, b, expiration) == [st EXCEPT ![k] = Entry(b, Ttl(expiration))]

\* SETNX key value / SET key value EX expiration NX
RedisSetNX(st, k, b, expiration) ==
    IF st[k].present THEN st ELSE [st EXCEPT ![k] = Entry(b, Ttl(expiration))]

\* the reply of SETNX: whether the key was set
RedisSetNXReply(st, k) == ~st[k].present

\* a DEL that removes nothing
RedisDelNothing(st, k) == st

\* DEL key
RedisDel(st, k) == [st EXCEPT ![k] = Absent]

\* the reply of DEL: the number of keys removed
RedisDelReply(st, k) == IF st[k].present THEN 1 ELSE 0

\* an EXISTS that finds every key / no key
RedisExistsAlways(st, k) == 1
RedisExistsNever(st, k) == 0

\* EXISTS key
RedisExists(st, k) == IF st[k].present THEN 1 ELSE 0

\* a flush that reaches one key only
RedisFlushOne(st) == [st EXCEPT !["a"] = Absent]

\* FLUSHALL
RedisFlushAll(st) == [k \in Keys |-> Absent]

\* DECRBY key d: an absent key counts as 0, the time to live is kept
DecrByOld(st, k) == IF st[k].present THEN ParseInt(st[k].val) ELSE [ok |-> TRUE, n |-> 0]
DecrByOk(st, k, d) ==
    /\ DecrByOld(st, k).ok
    /\ DecrByOld(st, k).n - d >= MinInt64
    /\ DecrByOld(st, k).n - d <= MaxInt64
RedisDecrBy(st, k, d) ==
    IF DecrByOk(st, k, d)
    THEN [st EXCEPT ![k] = Entry(FormatInt(DecrByOld(st, k).n - d), st[k].ttl)]
    ELSE st

-----------------------------------------------------------------------------
(* State *)

\* the locals of a call between its two commands: key, value (serialized),
\* expires, val (the integer read), num (sum, or the clamped delta); arg and
\* delta keep the caller's arguments
Idle == [key |-> "a", value |-> <<>>, expires |-> 0, val |-> 0, num |-> 0,
         arg |-> NoValue, delta |-> 0]

\* the last call that returned: its error and result (for Set, Add and Replace
\* val is the value the caller handed in), the expiration handed to the store
\* by its write, and the number of commands it issued
Ret(op, k, err, v, n, e, ncmd) ==
    [op |-> op, key |-> k, err |-> err, val |-> v, num |-> n, exp |-> e, ncmd |-> ncmd]

Init ==
    /\ store = [k \in Keys |-> Absent]
    /\ defaultExpiration \in DefaultExpirations
    /\ pc = [c \in Clients |-> "idle"]
    /\ loc = [c \in Clients |-> Idle]
    /\ ret = Ret("none", "a", "nil", NoValue, 0, 0, 0)
    /\ calls = 0

\* a client that is idle begins a call
Begin(c) ==
    /\ pc[c] = "idle"
    /\ calls < MaxCalls
    /\ calls' = calls + 1

Return(c, r) ==
    /\ ret' = r
    /\ pc' = [pc EXCEPT ![c] = "idle"]
    /\ loc' = [loc EXCEPT ![c] = Idle]

\* the body of Set, lines 37-43; arg is the value the caller of op handed in,
\* ncmd the number of commands of the call up to and including the SET
SetBody(c, op, k, v, expires, arg, ncmd, fail) ==
    LET s == Serialize(v) IN
    IF s.err # "nil"
    THEN /\ Return(c, Ret(op, k, s.err, arg, 0, 0, ncmd - 1))
         /\ UNCHANGED store
    ELSE /\ store' = IF fail THEN store ELSE RedisSet(store, k, s.b, expval(expires))
         /\ Return(c, Ret(op, k, IF fail THEN "ErrIO" ELSE "nil", arg, 0,
                          expval(expires), ncmd))

Set(c, k, v, expires, fail) ==
    /\ Begin(c)
    /\ SetBody(c, "Set", k, v, expires, v, 1, fail)
    /\ UNCHANGED defaultExpiration

Add(c, k, v, expires, fail) ==
    /\ Begin(c)
    /\ LET s == Serialize(v) IN
       IF s.err # "nil"
       THEN /\ Return(c, Ret("Add", k, s.err, v, 0, 0, 0))
            /\ UNCHANGED store
       ELSE LET stored == RedisSetNXReply(store, k)
            IN /\ store' = IF fail THEN store ELSE RedisSetNX(store, k, s.b, expval(expires))
               /\ Return(c, Ret("Add", k,
                         IF fail THEN "ErrIO" ELSE IF ~stored THEN "ErrNotStored" ELSE "nil",
                         v, 0, expval(expires), 1))
    /\ UNCHANGED defaultExpiration

\* line 70: value holds the []byte that Serialize returned; an interface that
\* holds a slice, even a nil or empty one, is not the nil interface
IsNilInterface(b) == FALSE

\* Replace up to its existence check (lines 62-72); a failed EXISTS has Val() = 0
Replace(c, k, v, expires, fail) ==
    /\ Begin(c)
    /\ LET s == Serialize(v) IN
       IF s.err # "nil"
       THEN /\ Return(c, Ret("Replace", k, s.err, v, 0, 0, 0))
            /\ UNCHANGED store
       ELSE LET exists == IF fail THEN 0 ELSE RedisExists(store, k)
            IN /\ UNCHANGED store
               /\ IF exists = 0 \/ IsNilInterface(s.b)
                  THEN Return(c, Ret("Replace", k, "ErrNotStored", v, 0, 0, 1))
                  ELSE /\ pc' = [pc EXCEPT ![c] = "ReplaceSet"]
                       /\ loc' = [loc EXCEPT ![c] = [Idle EXCEPT !.key = k, !.value = s.b,
                                        !.expires = expval(expires), !.arg = v]]
                       /\ UNCHANGED ret
    /\ UNCHANGED defaultExpiration

\* line 73: c.Set(key, value, c.expval(expires))
ReplaceSet(c, fail) ==
    /\ pc[c] = "ReplaceSet"
    /\ UNCHANGED calls
    /\ SetBody(c, "Replace", loc[c].key, BytesV(loc[c].value), loc[c].expires, loc[c].arg, 2, fail)
    /\ UNCHANGED defaultExpiration

\* a Get that hands the reply redis.Nil on as it is
GetReplyNil(st, k, dst) ==
    IF ~st[k].present THEN Ret("Get", k, "redis.Nil", NoValue, 0, 0, 1)
    ELSE Ret("Get", k, Deserialize(st[k].val, dst).err, Deserialize(st[k].val, dst).v, 0, 0, 1)

\* lines 78-85: what Get returns when the GET command itself does not fail;
\* the reply redis.Nil of an absent key becomes ErrCacheMiss
GetReply(st, k, dst) ==
    IF ~st[k].present THEN Ret("Get", k, "ErrCacheMiss", NoValue, 0, 0, 1)
    ELSE Ret("Get", k, Deserialize(st[k].val, dst).err, Deserialize(st[k].val, dst).v, 0, 0, 1)

\* a Get that removes the entry it reads (GETDEL)
GetDel(c, k, dst, fail) ==
    /\ Begin(c)
    /\ IF fail THEN Return(c, Ret("Get", k, "ErrIO", NoValue, 0, 0, 1))
       ELSE Return(c, GetReply(store, k, dst))
    /\ store' = IF fail THEN store ELSE RedisDel(store, k)
    /\ UNCHANGED defaultExpiration

Get(c, k, dst, fail) ==
    /\ Begin(c)
    /\ IF fail THEN Return(c, Ret("Get", k, "ErrIO", NoValue, 0, 0, 1))
       ELSE Return(c, GetReply(store, k, dst))
    /\ UNCHANGED <<store, defaultExpiration>>

Delete(c, k, fail) ==
    /\ Begin(c)
    /\ LET del == RedisDelReply(store, k)
       IN /\ store' = IF fail THEN store ELSE RedisDel(store, k)
          /\ Return(c, Ret("Delete", k,
                    IF fail THEN "ErrIO" ELSE IF del = 0 THEN "ErrCacheMiss" ELSE "nil",
                    NoValue, 0, 0, 1))
    /\ UNCHANGED defaultExpiration

\* line 109: sum := val + int64(delta)
Sum(val, delta) == ToInt64(val + ToInt64(delta))

\* Increment up to its read (lines 101-109)
Increment(c, k, delta, fail) ==
    /\ Begin(c)
    /\ IF fail THEN Return(c, Ret("Increment", k, "ErrIO", NoValue, 0, 0, 1))
       ELSE IF ~store[k].present
            THEN Return(c, Ret("Increment", k, "ErrCacheMiss", NoValue, 0, 0, 1))
       ELSE IF ~ParseInt(store[k].val).ok
            THEN Return(c, Ret("Increment", k, "ErrParse", NoValue, 0, 0, 1))
       ELSE /\ pc' = [pc EXCEPT ![c] = "IncrementSet"]
            /\ loc' = [loc EXCEPT ![c] = [Idle EXCEPT !.key = k, !.delta = delta,
                            !.val = ParseInt(store[k].val).n,
                            !.num = Sum(ParseInt(store[k].val).n, delta)]]
            /\ UNCHANGED ret
    /\ UNCHANGED <<store, defaultExpiration>>

\* an Increment that writes the sum with the expiration the entry has
IncrementSetKeepsTtl(c, fail) ==
    /\ pc[c] = "IncrementSet"
    /\ UNCHANGED calls
    /\ store' = IF fail THEN store
                ELSE RedisSet(store, loc[c].key, FormatInt(loc[c].num), store[loc[c].key].ttl)
    /\ IF fail THEN Return(c, Ret("Increment", loc[c].key, "ErrIO", NoValue, 0, 0, 2))
       ELSE Return(c, Ret("Increment", loc[c].key, "nil", NoValue,
                          ToUint64(loc[c].num), 0, 2))
    /\ UNCHANGED defaultExpiration

\* lines 110-114: the write of the sum, with no expiration
IncrementSet(c, fail) ==
    /\ pc[c] = "IncrementSet"
    /\ UNCHANGED calls
    /\ store' = IF fail THEN store
                ELSE RedisSet(store, loc[c].key, FormatInt(loc[c].num), 0)
    /\ IF fail THEN Return(c, Ret("Increment", loc[c].key, "ErrIO", NoValue, 0, 0, 2))
       ELSE Return(c, Ret("Increment", loc[c].key, "nil", NoValue,
                          ToUint64(loc[c].num), 0, 2))
    /\ UNCHANGED defaultExpiration

\* a Decrement that does not clamp
NoClamp(val, delta) == delta

\* lines 126-128: if delta > uint64(val) { delta = uint64(val) }
Clamp(val, delta) == IF delta > ToUint64(val) THEN ToUint64(val) ELSE delta

\* Decrement up to its read and clamp (lines 118-128)
Decrement(c, k, delta, fail) ==
    /\ Begin(c)
    /\ IF fail THEN Return(c, Ret("Decrement", k, "ErrIO", NoValue, 0, 0, 1))
       ELSE IF ~store[k].present
            THEN Return(c, Ret("Decrement", k, "ErrCacheMiss", NoValue, 0, 0, 1))
       ELSE IF ~ParseInt(store[k].val).ok
            THEN Return(c, Ret("Decrement", k, "ErrParse", NoValue, 0, 0, 1))
       ELSE /\ pc' = [pc EXCEPT ![c] = "DecrementDecrBy"]
            /\ loc' = [loc EXCEPT ![c] = [Idle EXCEPT !.key = k, !.delta = delta,
                            !.val = ParseInt(store[k].val).n,
                            !.num = Clamp(ParseInt(store[k].val).n, delta)]]
            /\ UNCHANGED ret
    /\ UNCHANGED <<store, defaultExpiration>>

\* lines 129-130: DecrBy(key, int64(delta)) and the conversion of its reply
DecrementDecrBy(c, fail) ==
    /\ pc[c] = "DecrementDecrBy"
    /\ UNCHANGED calls
    /\ LET k == loc[c].key
           d == ToInt64(loc[c].num)
           ok == ~fail /\ DecrByOk(store, k, d)
           tempint == IF ok THEN DecrByOld(store, k).n - d ELSE 0
       IN /\ store' = IF fail THEN store ELSE RedisDecrBy(store, k, d)
          /\ Return(c, Ret("Decrement", k,
                    IF fail THEN "ErrIO" ELSE IF ~ok THEN "ErrRedis" ELSE "nil",
                    NoValue, ToUint64(tempint), 0, 2))
    /\ UNCHANGED defaultExpiration

Flush(c, fail) ==
    /\ Begin(c)
    /\ store' = IF fail THEN store ELSE RedisFlushAll(store)
    /\ Return(c, Ret("Flush", "a", IF fail THEN "ErrIO" ELSE "nil", NoValue, 0, 0, 1))
    /\ UNCHANGED defaultExpiration

\* the remote store drops an entry whose time to live has run out
Expire(k) ==
    /\ store[k].present
    /\ store[k].ttl > 0
    /\ store' = [store EXCEPT ![k] = Absent]
    /\ UNCHANGED <<defaultExpiration, pc, loc, ret, calls>>

Next ==
    \/ \E c \in Clients, k \in Keys, v \in Values, e \in Expirations, fail \in BOOLEAN :
          Set(c, k, v, e, fail)
    \/ \E c \in Clients, k \in Keys, v \in Values, e \in Expirations, fail \in BOOLEAN :
          Add(c, k, v, e, fail)
    \/ \E c \in Clients, k \in Keys, v \in Values, e \in Expirations, fail \in BOOLEAN :
          Replace(c, k, v, e, fail)
    \/ \E c \in Clients, fail \in BOOLEAN : ReplaceSet(c, fail)
    \/ \E c \in Clients, k \in Keys, dst \in Kinds, fail \in BOOLEAN : Get(c, k, dst, fail)
    \/ \E c \in Clients, k \in Keys, fail \in BOOLEAN : Delete(c, k, fail)
    \/ \E c \in Clients, k \in Keys, d \in Deltas, fail \in BOOLEAN : Increment(c, k, d, fail)
    \/ \E c \in Clients, fail \in BOOLEAN : IncrementSet(c, fail)
    \/ \E c \in Clients, k \in Keys, d \in Deltas, fail \in BOOLEAN : Decrement(c, k, d, fail)
    \/ \E c \in Clients, fail \in BOOLEAN : DecrementDecrBy(c, fail)
    \/ \E c \in Clients, fail \in BOOLEAN : Flush(c, fail)
    \/ \E k \in Keys : Expire(k)

Spec == Init /\ [][Next]_vars

-----------------------------------------------------------------------------
(* The store under callers whose values are byte strings, the empty one
   among them *)

ByteValues == {BytesV(<<>>), BytesV(<<CharA>>)}

NextBytes ==
    \/ \E c \in Clients, k \in Keys, v \in ByteValues, e \in Expirations, fail \in BOOLEAN :
          Set(c, k, v, e, fail)
    \/ \E c \in Clients, k \in Keys, v \in ByteValues, e \in Expirations, fail \in BOOLEAN :
          Replace(c, k, v, e, fail)
    \/ \E c \in Clients, fail \in BOOLEAN : ReplaceSet(c, fail)
    \/ \E c \in Clients, k \in Keys, fail \in BOOLEAN : Get(c, k, "bytes", fail)
    \/ \E k \in Keys : Expire(k)

SpecBytes == Init /\ [][NextBytes]_vars

-----------------------------------------------------------------------------
(* Counters: every key holds an integer, and the clients call Decrement
   only, or Increment only *)

Counter == IntV(1)

\* the store after Set(k, Counter, FOREVER) for every key k
InitCounter ==
    /\ store = [k \in Keys |-> Entry(Serialize(Counter).b, 0)]
    /\ defaultExpiration \in DefaultExpirations
    /\ pc = [c \in Clients |-> "idle"]
    /\ loc = [c \in Clients |-> Idle]
    /\ ret = Ret("none", "a", "nil", NoValue, 0, 0, 0)
    /\ calls = 0

NextDecrement ==
    \/ \E c \in Clients, k \in Keys, d \in Deltas, fail \in BOOLEAN : Decrement(c, k, d, fail)
    \/ \E c \in Clients, fail \in BOOLEAN : DecrementDecrBy(c, fail)

SpecDecrement == InitCounter /\ [][NextDecrement]_vars

\* every Increment adds 1 and none of its commands fails
NextIncrement ==
    \/ \E c \in Clients, k \in Keys : Increment(c, k, 1, FALSE)
    \/ \E c \in Clients : IncrementSet(c, FALSE)

SpecIncrement == InitCounter /\ [][NextIncrement]_vars

-----------------------------------------------------------------------------
(* Properties *)

\* the step is the first step of a call of client c
Begins(c) == pc[c] = "idle" /\ calls' = calls + 1

\* C1: when the last call that returned is a Set of a key that returned no
\* error (so no other call has written since) and the entry has not expired,
\* a Get of the key into a destination of the type of the value, whose GET
\* command does not fail, returns no error and the value that was Set.
SetThenGetRoundTrip ==
    [][(ret.op = "Set" /\ ret.err = "nil" /\ store[ret.key].present)
       => \A c \in Clients :
            Get(c, ret.key, ret.val.kind, FALSE)
            => (ret'.op = "Get" /\ ret'.err = "nil" /\ ret'.val = ret.val)]_vars

SetThenGetReached ==
    /\ ret.op = "Get"
    /\ ret.err = "nil"
    /\ ret.val = BytesV(<<CharA>>)
    /\ store[ret.key] = Entry(<<CharA>>, Literal)

\* C2: a Get of a key that is not in the store, whose GET command does not
\* fail, returns ErrCacheMiss.
GetAbsentIsCacheMiss ==
    [][\A k \in Keys :
         ~store[k].present
         => \A c \in Clients, dst \in Kinds :
              Get(c, k, dst, FALSE) => (ret'.op = "Get" /\ ret'.err = "ErrCacheMiss")]_vars

GetAbsentReached ==
    /\ ret.op = "Get"
    /\ ret.err = "ErrCacheMiss"
    /\ ~store[ret.key].present
    /\ \E k \in Keys : store[k].present

\* (a call of Set or Add returns in its one step, and the ret it leaves names
\* the key and the value of the call)
\* C3: an Add of a key that is in the store (the value serializes, the SETNX
\* command does not fail) returns ErrNotStored and leaves the whole store,
\* values and expirations, as it was.  Add is one command of the store, so
\* concurrent Adds are ordered by the store: an Add returns no error only if
\* the key was absent at its command, and the key is present afterwards, so
\* of several Adds of a key with no removal in between at most one succeeds.
AddOnPresentKeepsEntry ==
    [][\A c \in Clients :
         (Begins(c) /\ ret'.op = "Add")
         => LET k == ret'.key
                v == ret'.val
            IN \A e \in Expirations :
                 (Serialize(v).err = "nil" /\ Add(c, k, v, e, FALSE))
                 => /\ store[k].present => (ret'.err = "ErrNotStored" /\ store' = store)
                    /\ ret'.err = "nil" => (~store[k].present /\ store'[k].present)]_vars

AddOnPresentReached ==
    /\ ret.op = "Add"
    /\ ret.err = "ErrNotStored"
    /\ store[ret.key].present
    /\ store[ret.key].val # Serialize(ret.val).b

\* C4: a Replace of a key that is not in the store (the value serializes,
\* the EXISTS command does not fail) returns ErrNotStored after its
\* existence check, and the key is still absent.
ReplaceAbsentNotStored ==
    [][\A c \in Clients, k \in Keys :
         (Begins(c) /\ ~store[k].present /\ (ret'.op = "Replace" \/ pc'[c] = "ReplaceSet"))
         => \A v \in Values, e \in Expirations :
              (Serialize(v).err = "nil" /\ Replace(c, k, v, e, FALSE))
              => /\ ret'.op = "Replace"
                 /\ ret'.err = "ErrNotStored"
                 /\ pc'[c] = "idle"
                 /\ store' = store]_vars

ReplaceAbsentReached ==
    /\ ret.op = "Replace"
    /\ ret.err = "ErrNotStored"
    /\ ret.ncmd = 1
    /\ Serialize(ret.val).err = "nil"
    /\ ~store[ret.key].present
    /\ \E k \in Keys : store[k].present

\* C5: a Replace of a key that is in the store (the value serializes, no
\* command fails) passes its existence check and goes on to its write; the
\* write returns no error and leaves the serialized new value in the entry;
\* and while that Replace is the last call that returned and the entry has
\* not expired, a Get of the key returns the new value.
ReplacePresentOverwrites ==
    [][/\ \A c \in Clients, k \in Keys :
            (Begins(c) /\ store[k].present /\ (ret'.op = "Replace" \/ pc'[c] = "ReplaceSet"))
            => \A v \in Values, e \in Expirations :
                 (Serialize(v).err = "nil" /\ Replace(c, k, v, e, FALSE))
                 => (pc'[c] = "ReplaceSet" /\ loc'[c].key = k /\ loc'[c].arg = v)
       /\ \A c \in Clients :
            ReplaceSet(c, FALSE)
            => /\ ret'.op = "Replace"
               /\ ret'.err = "nil"
               /\ ret'.val = loc[c].arg
               /\ store'[loc[c].key].present
               /\ store'[loc[c].key].val = Serialize(loc[c].arg).b
       /\ (ret.op = "Replace" /\ ret.err = "nil" /\ store[ret.key].present)
          => \A c \in Clients :
               Get(c, ret.key, ret.val.kind, FALSE)
               => (ret'.op = "Get" /\ ret'.err = "nil" /\ ret'.val = ret.val)]_vars

ReplacePresentReached ==
    /\ ret.op = "Replace"
    /\ ret.err = "nil"
    /\ ret.ncmd = 2
    /\ ret.val = BytesV(<<CharA>>)
    /\ store[ret.key].present
    /\ store[ret.key].val = <<CharA>>

\* C6: an Increment of an absent key returns ErrCacheMiss; an Increment of a
\* key that holds the integer v >= 0, none of whose commands fails, returns
\* v + delta with no error, and the key then holds v + delta.
IncrementReturnsSum ==
    [][/\ \A c \in Clients, k \in Keys :
            (Begins(c) /\ ~store[k].present)
            => \A d \in Deltas :
                 Increment(c, k, d, FALSE) => ret'.err = "ErrCacheMiss"
       /\ \A c \in Clients :
            (pc[c] = "IncrementSet" /\ loc[c].val >= 0 /\ IncrementSet(c, FALSE))
            => /\ ret'.err = "nil"
               /\ ret'.num = loc[c].val + loc[c].delta
               /\ store'[loc[c].key].val = FormatInt(loc[c].val + loc[c].delta)]_vars

\* the part of C6 that the code keeps: the same, for v >= 0 and
\* v + delta not above the largest signed word
IncrementReturnsSumInRange ==
    [][\A c \in Clients :
         (/\ pc[c] = "IncrementSet"
          /\ loc[c].val >= 0
          /\ loc[c].val + loc[c].delta <= MaxInt64
          /\ IncrementSet(c, FALSE))
         => /\ ret'.err = "nil"
            /\ ret'.num = loc[c].val + loc[c].delta
            /\ store'[loc[c].key].val = FormatInt(loc[c].val + loc[c].delta)]_vars

Max0(x) == IF x > 0 THEN x ELSE 0

\* C7: a Decrement of an absent key returns ErrCacheMiss.  A Decrement of a
\* key that holds the integer v >= 0 reads v, and when the entry still holds
\* v at its DECRBY command (a single client: nothing else has changed the
\* entry in between) and no command fails, it returns max(v - delta, 0) with
\* no error and leaves exactly that value in the entry.
DecrementClamps ==
    [][/\ \A c \in Clients :
            (Begins(c) /\ (ret'.op = "Decrement" \/ pc'[c] = "DecrementDecrBy"))
            => \A k \in Keys, d \in Deltas :
            Decrement(c, k, d, FALSE)
            => /\ ~store[k].present => (ret'.err = "ErrCacheMiss" /\ store' = store)
               /\ (store[k].present /\ ParseInt(store[k].val).ok)
                  => /\ pc'[c] = "DecrementDecrBy"
                     /\ loc'[c].key = k
                     /\ loc'[c].val = ParseInt(store[k].val).n
                     /\ loc'[c].delta = d
       /\ \A c \in Clients :
            (/\ pc[c] = "DecrementDecrBy"
             /\ loc[c].val >= 0
             /\ store[loc[c].key].present
             /\ store[loc[c].key].val = FormatInt(loc[c].val)
             /\ DecrementDecrBy(c, FALSE))
            => /\ ret'.err = "nil"
               /\ ret'.num = Max0(loc[c].val - loc[c].delta)
               /\ store'[loc[c].key].val = FormatInt(Max0(loc[c].val - loc[c].delta))]_vars

DecrementClampReached ==
    /\ calls = 2
    /\ ret.op = "Decrement"
    /\ ret.err = "nil"
    /\ ret.num = 0
    /\ store[ret.key].present
    /\ store[ret.key].val = FormatInt(0)

\* C8: a Delete whose DEL command does not fail returns ErrCacheMiss for an
\* absent key and leaves the store as it was; for a present key it returns no
\* error and the key is absent afterwards; and while that Delete is the last
\* call that returned (no write has followed it) the key is absent and a Get
\* of it returns ErrCacheMiss.
DeleteRemoves ==
    [][/\ \A k \in Keys, c \in Clients :
            Delete(c, k, FALSE)
            => /\ ret'.op = "Delete"
               /\ ~store[k].present => (ret'.err = "ErrCacheMiss" /\ store' = store)
               /\ store[k].present => (ret'.err = "nil" /\ ~store'[k].present)
       /\ (ret.op = "Delete" /\ ret.err = "nil")
          => /\ ~store[ret.key].present
             /\ \A c \in Clients, dst \in Kinds :
                  Get(c, ret.key, dst, FALSE) => ret'.err = "ErrCacheMiss"]_vars

DeleteReached ==
    /\ ret.op = "Delete"
    /\ ret.err = "nil"
    /\ ~store[ret.key].present
    /\ \E c \in Clients : pc[c] = "ReplaceSet" /\ loc[c].key = ret.key

\* C9: a Flush whose command does not fail returns no error and leaves every
\* key absent; and while that Flush is the last call that returned (no write
\* has followed it) every key is absent and a Get of any key returns
\* ErrCacheMiss.
FlushEmpties ==
    [][/\ \A c \in Clients :
            Flush(c, FALSE) => (ret'.err = "nil" /\ \A k \in Keys : ~store'[k].present)
       /\ (ret.op = "Flush" /\ ret.err = "nil")
          => /\ \A k \in Keys : ~store[k].present
             /\ \A c \in Clients, k \in Keys, dst \in Kinds :
                  Get(c, k, dst, FALSE) => ret'.err = "ErrCacheMiss"]_vars

FlushReached ==
    /\ calls = 3
    /\ ret.op = "Flush"
    /\ ret.err = "nil"
    /\ \A k \in Keys : ~store[k].present
    /\ \E c \in Clients : pc[c] = "DecrementDecrBy" /\ loc[c].key = "b"

\* C10: the expiration that Set and Add hand to the store with their write is
\* the configured default for DEFAULT, zero (no expiration) for FOREVER and
\* the argument itself for every other value.
Resolved(e) == IF e = DEFAULT THEN defaultExpiration ELSE IF e = FOREVER THEN 0 ELSE e

ExpirationResolved ==
    [][\A c \in Clients :
         (Begins(c) /\ ret'.op \in {"Set", "Add"})
         => LET k == ret'.key
                v == ret'.val
            IN \A e \in Expirations, fail \in BOOLEAN :
                 (Serialize(v).err = "nil" /\ (Set(c, k, v, e, fail) \/ Add(c, k, v, e, fail)))
                 => /\ ret'.exp = Resolved(e)
                    /\ ret'.err = "nil" => store'[k].ttl = Resolved(e)]_vars

ExpirationDefaultReached ==
    /\ ret.op = "Add"
    /\ ret.err = "nil"
    /\ defaultExpiration > 0
    /\ ret.exp = defaultExpiration
    /\ store[ret.key].ttl = defaultExpiration

\* C11: in every operation, a command to the store that fails with an I/O
\* error ends the call at once (no further command, no retry), the call
\* returns that error, not ErrCacheMiss, ErrNotStored or success, and the
\* store is as it was.  (A Set, Add or Replace whose value does not serialize
\* issues no command.)
IOErrorPassedThrough ==
    [][\A c \in Clients :
         /\ Begins(c)
            => \A k \in Keys :
                 (\/ \E v \in Values, e \in Expirations :
                        /\ Serialize(v).err = "nil"
                        /\ Set(c, k, v, e, TRUE) \/ Add(c, k, v, e, TRUE) \/ Replace(c, k, v, e, TRUE)
                  \/ \E dst \in Kinds : Get(c, k, dst, TRUE)
                  \/ Delete(c, k, TRUE)
                  \/ \E d \in Deltas : Increment(c, k, d, TRUE) \/ Decrement(c, k, d, TRUE)
                  \/ Flush(c, TRUE))
                 => (pc'[c] = "idle" /\ ret'.err = "ErrIO" /\ ret'.ncmd = 1 /\ store' = store)
         /\ (ReplaceSet(c, TRUE) \/ IncrementSet(c, TRUE) \/ DecrementDecrBy(c, TRUE))
            => (pc'[c] = "idle" /\ ret'.err = "ErrIO" /\ ret'.ncmd = 2 /\ store' = store)]_vars

\* the part of C11 that the code keeps: the same, for every command but the
\* EXISTS of Replace
IOErrorPassedThroughButExists ==
    [][\A c \in Clients :
         /\ Begins(c)
            => \A k \in Keys :
                 (\/ \E v \in Values, e \in Expirations :
                        /\ Serialize(v).err = "nil"
                        /\ Set(c, k, v, e, TRUE) \/ Add(c, k, v, e, TRUE)
                  \/ \E dst \in Kinds : Get(c, k, dst, TRUE)
                  \/ Delete(c, k, TRUE)
                  \/ \E d \in Deltas : Increment(c, k, d, TRUE) \/ Decrement(c, k, d, TRUE)
                  \/ Flush(c, TRUE))
                 => (pc'[c] = "idle" /\ ret'.err = "ErrIO" /\ ret'.ncmd = 1 /\ store' = store)
         /\ (ReplaceSet(c, TRUE) \/ IncrementSet(c, TRUE) \/ DecrementDecrBy(c, TRUE))
            => (pc'[c] = "idle" /\ ret'.err = "ErrIO" /\ ret'.ncmd = 2 /\ store' = store)]_vars

\* C12: the write of an Increment that succeeds leaves the entry with no
\* expiration, whatever expiration the entry had before the write.
IncrementDropsTtl ==
    [][\A c \in Clients :
         IncrementSet(c, FALSE)
         => /\ ret'.op = "Increment"
            /\ ret'.err = "nil"
            /\ ret'.exp = 0
            /\ store'[loc[c].key].present
            /\ store'[loc[c].key].ttl = 0]_vars

\* an Increment has read an entry that expires and is at its write
IncrementOnExpiringReached ==
    \E c \in Clients :
       /\ pc[c] = "IncrementSet"
       /\ store[loc[c].key] = Entry(FormatInt(loc[c].val), Literal)

\* C13: the existence check and the write of Replace are two steps.  When a
\* Replace has passed its check and a Delete of its key (or a Flush) by
\* another client is the last call that returned, with no error, the key is
\* absent; the write of the Replace, when its SET does not fail, still returns
\* no error and leaves the key present with the value of the Replace.
ReplaceWritesAfterDelete ==
    [][\A c \in Clients :
         (/\ pc[c] = "ReplaceSet"
          /\ ret.err = "nil"
          /\ (ret.op = "Delete" /\ ret.key = loc[c].key) \/ ret.op = "Flush"
          /\ ReplaceSet(c, FALSE))
         => /\ ~store[loc[c].key].present
            /\ ret'.op = "Replace"
            /\ ret'.err = "nil"
            /\ ret'.ncmd = 2
            /\ store'[loc[c].key].present
            /\ store'[loc[c].key].val = Serialize(loc[c].arg).b]_vars

\* a Delete of the key has succeeded between the check and the write of a
\* Replace
ReplaceRaceReached ==
    \E c \in Clients :
       /\ pc[c] = "ReplaceSet"
       /\ loc[c].arg = IntV(2)
       /\ ret.op = "Delete"
       /\ ret.key = loc[c].key
       /\ ret.err = "nil"
       /\ ~store[loc[c].key].present

\* C14: a call of Set, Add, Get, Delete, Increment, Decrement or Flush issues
\* exactly one command (none when the value of a Set or Add does not
\* serialize), a call of Replace at most two, and Replace is the only
\* operation that is ever between two of its commands.
OneCommandPerCall ==
    /\ \A c \in Clients : pc[c] \in {"idle", "ReplaceSet"}
    /\ (ret.op \in {"Set", "Add", "Get", "Delete", "Increment", "Decrement", "Flush"}
        /\ ret.err # "ErrSerialize")
       => ret.ncmd = 1
    /\ ret.op = "Replace" => ret.ncmd <= 2

\* what the code keeps of C14: Set, Add, Get, Delete and Flush issue one
\* command; Replace, Increment and Decrement issue at most two, and a call of
\* one of these three is the only one that is ever between two commands
CommandsPerCall ==
    /\ \A c \in Clients : pc[c] \in {"idle", "ReplaceSet", "IncrementSet", "DecrementDecrBy"}
    /\ (ret.op \in {"Set", "Add", "Get", "Delete", "Flush"} /\ ret.err # "ErrSerialize")
       => ret.ncmd = 1
    /\ ret.op \in {"Replace", "Increment", "Decrement"} => ret.ncmd <= 2

\* C15: a Replace of a key that is in the store, with a value that serializes
\* to the empty byte string (the EXISTS command does not fail), returns
\* ErrNotStored after its existence check and leaves the store as it was.
ReplaceEmptyNotStored ==
    [][\A c \in Clients, k \in Keys :
         (Begins(c) /\ store[k].present)
         => \A v \in ByteValues, e \in Expirations :
              (Serialize(v).err = "nil" /\ Len(Serialize(v).b) = 0 /\ Replace(c, k, v, e, FALSE))
              => /\ pc'[c] = "idle"
                 /\ ret'.op = "Replace"
                 /\ ret'.err = "ErrNotStored"
                 /\ store' = store]_vars

\* what the code does with C15's call: the Replace goes on to its write, which
\* returns no error and leaves the empty byte string in the entry
ReplaceEmptyOverwrites ==
    [][\A c \in Clients :
         (pc[c] = "ReplaceSet" /\ Len(loc[c].value) = 0 /\ ReplaceSet(c, FALSE))
         => /\ ret'.op = "Replace"
            /\ ret'.err = "nil"
            /\ store'[loc[c].key] = Entry(<<>>, Ttl(expval(loc[c].expires)))]_vars

\* C16: a Replace that succeeds leaves the entry with the expiration that a
\* Set with the same expires argument leaves (C10: the time to live of
\* Resolved(expires)).  A Replace that has passed its check holds
\* Resolved(expires) of its argument as the expiration of its write, and its
\* write leaves the entry with the time to live of exactly that expiration:
\* none for FOREVER, whatever the configured default.
ReplaceExpiresAsSet ==
    [][\A c \in Clients :
         /\ (Begins(c) /\ pc'[c] = "ReplaceSet")
            => \A e \in Expirations :
                 Replace(c, loc'[c].key, loc'[c].arg, e, FALSE) => loc'[c].expires = Resolved(e)
         /\ (pc[c] = "ReplaceSet" /\ ReplaceSet(c, FALSE))
            => /\ ret'.err = "nil"
               /\ ret'.exp = loc[c].expires
               /\ store'[loc[c].key].ttl = Ttl(loc[c].expires)]_vars

\* the integer that key k holds
Stored(k) == ParseInt(store[k].val).n

\* C17: when the keys hold non-negative integers and the clients call
\* Decrement only, in every interleaving the keys go on holding non-negative
\* integers, and a Decrement that returns no error returns a value that is
\* not larger than the value it read.
DecrementNeverNegative ==
    [][/\ \A k \in Keys :
            store'[k].present /\ ParseInt(store'[k].val).ok /\ ParseInt(store'[k].val).n >= 0
       /\ \A c \in Clients :
            (pc[c] = "DecrementDecrBy" /\ DecrementDecrBy(c, FALSE) /\ ret'.err = "nil")
            => ret'.num <= loc[c].val]_vars

\* C18: when the keys hold the integer v and the clients call Increment only,
\* each call with delta 1, no command failing (so every call returns no
\* error), then once all n calls have returned the keys hold 2 * v + n in
\* all, as long as v + n is in the range of the signed word.
NoIncrementLost ==
    ((\A c \in Clients : pc[c] = "idle") /\ Counter.n + calls <= MaxInt64)
    => Stored("a") + Stored("b") = 2 * Counter.n + calls

\* C19: a call that returns ErrCacheMiss or ErrNotStored returns in the step
\* of its first command, and that step leaves the store (the keys, the values
\* and the expirations) as it was; so does the step of a Get that returns no
\* error.  No call returns ErrCacheMiss or ErrNotStored from its second
\* command.
FailedCallKeepsStore ==
    [][\A c \in Clients :
         /\ (/\ Begins(c)
             /\ pc'[c] = "idle"
             /\ \/ ret'.err \in {"ErrCacheMiss", "ErrNotStored"}
                \/ (ret'.op = "Get" /\ ret'.err = "nil"))
            => store' = store
         /\ (pc[c] # "idle" /\ pc'[c] = "idle")
            => ret'.err \notin {"ErrCacheMiss", "ErrNotStored"}]_vars

\* an Increment of an absent key has returned ErrCacheMiss, and the other key
\* still has its value and its expiration
FailedCallReached ==
    /\ ret.op = "Increment"
    /\ ret.err = "ErrCacheMiss"
    /\ ~store[ret.key].present
    /\ \E k \in Keys : store[k] = Entry(<<CharA>>, Literal)

\* C20: an Increment that has read the integer v >= 0 and whose write does
\* not fail, with any delta of the unsigned word, returns a value that is at
\* least v and is the integer that the key then holds (which is therefore not
\* negative).
IncrementNoWrap ==
    [][\A c \in Clients :
         (pc[c] = "IncrementSet" /\ loc[c].val >= 0 /\ IncrementSet(c, FALSE))
         => /\ ret'.err = "nil"
            /\ ret'.num >= loc[c].val
            /\ ParseInt(store'[loc[c].key].val).ok
            /\ ParseInt(store'[loc[c].key].val).n = ret'.num]_vars

====
